---- MODULE Spec2Model ----
(***************************************************************************)
(* The MPI implementation of Dijkstra's algorithm of src/p3.c.             *)
(*                                                                         *)
(* p processes (ranks 0..p-1) each hold a block column of the n x n        *)
(* matrix: n rows, loc_n = n/p columns, stored row-major in loc_mat.  Each *)
(* process runs Dijkstra() on its block; the only communication inside the *)
(* loop is the MPI_Allreduce with MPI_MINLOC of line 309.  Process 0 then  *)
(* gathers the distances and the predecessors and prints them.             *)
(*                                                                         *)
(* Arrays are functions over 0..len-1, as in C.  A process' local          *)
(* computation between two collectives is one step; the processes          *)
(* interleave freely between the collectives.                              *)
(***************************************************************************)
EXTENDS Integers, Sequences, FiniteSets, TLC

VARIABLES
    n,          \* number of vertices, read by Read_n
    p,          \* number of processes, MPI_Comm_size
    mat,        \* the matrix read on process 0, row-major, n*n ints
    phase,      \* how far main() has got: "start", "scattered",
                \*   "dists_printed", "paths_printed"; built with DEBUG,
                \*   "matrix_printed" after Print_matrix
    crashed,    \* the job was killed by a fault (SIGSEGV, SIGFPE)
    loc_mat,    \* loc_mat[k]: process k's block column, n*loc_n ints
    loc_dist,   \* loc_dist[k]: process k's distances, loc_n ints
    loc_pred,   \* loc_pred[k]: process k's predecessors, loc_n ints
    known,      \* known[k]: process k's known flags, loc_n ints
    wpc,        \* wpc[k]: "main" (before Dijkstra), "reduce" (inside
                \*   MPI_Allreduce of round i[k]), "done" (left the loop)
    i,          \* i[k]: process k's loop counter of line 293
    my_min,     \* my_min[k]: the pair process k gave to its last Allreduce
    arrived,    \* ranks that have entered the Allreduce not yet completed
    glbl_min,   \* glbl_min[r]: the result of the r-th Allreduce
    dist,       \* Print_dists: the vector gathered on process 0
    pred,       \* Print_paths: the vector gathered on process 0
    paths,      \* Print_paths: paths[v] is the line printed for vertex v
    gmat        \* Print_matrix (built with DEBUG): the ints gathered into mat

vars == <<n, p, mat, phase, crashed, loc_mat, loc_dist, loc_pred, known,
          wpc, i, my_min, arrived, glbl_min, dist, pred, paths, gmat>>

(***************************************************************************)
(* Constants and bounds                                                    *)
(***************************************************************************)
INFINITY == 1000000

\* Largest number of vertices of the exhaustively enumerated matrices.
MaxN == 3
\* Largest finite edge weight of the enumerated matrices.
MaxW == 2

\* Largest number of processes.
MaxP == 4

Weights == (0 .. MaxW) \cup {INFINITY}

\* What a read of memory the program never wrote may return.
Garbage == {0 - INFINITY - 1, 0 - 1, 0}

\* What an int of a malloc'd array that was never written may hold.
Uninit == {0 - 1, 0, 1}

\* The contents of an array that has not been written yet.
Empty == [x \in {} |-> 0]

\* The example of the file header and of the README.
SampleSeq == <<0, 1, 2, 3,
               4, 0, 5, 6,
               7, 8, 0, 9,
               8, 7, 6, 0>>
SampleMat == [idx \in 0 .. (Len(SampleSeq) - 1) |-> SampleSeq[idx + 1]]
SampleN == CHOOSE k \in 1 .. Len(SampleSeq) : k * k = Len(SampleSeq)

\* The entries Dijkstra() can read: row 0, and mat[u][v] for u, v >= 1,
\* u # v.  Column 0 below row 0 and the diagonal below mat[0][0] are only
\* ever read for a known vertex v, which line 325 skips; the enumerated
\* inputs leave them 0.
Free(nn) == {idx \in 0 .. (nn * nn - 1) :
               \/ idx \div nn = 0
               \/ (idx % nn # 0 /\ idx % nn # idx \div nn)}

GeneralInputs(nn) ==
    {[idx \in 0 .. (nn * nn - 1) |-> IF idx \in Free(nn) THEN f[idx] ELSE 0] :
        f \in [Free(nn) -> Weights]}

\* The sample matrix, and the sample matrix with another first row.
SampleInputs ==
    {SampleMat} \cup
    {[idx \in DOMAIN SampleMat |-> IF idx < SampleN THEN r[idx] ELSE SampleMat[idx]] :
        r \in [0 .. (SampleN - 1) -> Weights]}

Inputs(nn) == IF nn = SampleN /\ nn > MaxN THEN SampleInputs ELSE GeneralInputs(nn)

Sizes == (1 .. MaxN) \cup {SampleN}

(***************************************************************************)
(* main: the layout                                                        *)
(***************************************************************************)
Ranks == 0 .. (p - 1)

\* line 84
LocN == n \div p

\* The blocks taken with a stride of loc_n ints instead of n.
BlkColIndexNarrow(k, idx, nn, ln) == k * ln + (idx \div ln) * ln + (idx % ln)

\* The matrix cut into p runs of n*loc_n consecutive ints.
BlkColIndexFlat(k, idx, nn, ln) == k * nn * ln + idx

\* MPI_Scatter with blk_col_mpi_t: n blocks of loc_n ints, stride n,
\* resized to an extent of loc_n ints, so that process k's element starts
\* k*loc_n ints into mat; it arrives as n*loc_n contiguous ints.
BlkColIndex(k, idx, nn, ln) == k * ln + (idx \div ln) * nn + (idx % ln)

Scatter(m, k, nn, ln) ==
    [idx \in 0 .. (nn * ln - 1) |-> m[BlkColIndex(k, idx, nn, ln)]]

(***************************************************************************)
(* Find_min_dist and the reduction                                         *)
(***************************************************************************)
\* line 361
Closer(d, loc_min_dist) == d < loc_min_dist

RECURSIVE FindMinLoop(_, _, _, _, _, _)
FindMinLoop(ldist, lknown, ln, loc_v, loc_u, loc_min_dist) ==
    IF loc_v >= ln THEN loc_u
    ELSE IF lknown[loc_v] = 0 /\ Closer(ldist[loc_v], loc_min_dist)
         THEN FindMinLoop(ldist, lknown, ln, loc_v + 1, loc_v, ldist[loc_v])
         ELSE FindMinLoop(ldist, lknown, ln, loc_v + 1, loc_u, loc_min_dist)

Find_min_dist(ldist, lknown, ln) ==
    FindMinLoop(ldist, lknown, ln, 0, INFINITY, INFINITY)

\* line 302
GlobalId(loc_u, my_rank, ln) == loc_u + my_rank * ln

\* lines 296-306
MyMin(ldist, lknown, ln, my_rank) ==
    LET loc_u == Find_min_dist(ldist, lknown, ln)
    IN  IF loc_u < INFINITY
        THEN <<ldist[loc_u], GlobalId(loc_u, my_rank, ln)>>
        ELSE <<INFINITY, INFINITY>>

\* On equal values the index of the second operand.
MinLocLast(a, b) == IF a[1] < b[1] THEN a ELSE b

\* MPI_MINLOC on two (value, index) pairs: the smaller value, and on equal
\* values the smaller index.
MinLoc(a, b) ==
    IF a[1] < b[1] THEN a
    ELSE IF b[1] < a[1] THEN b
    ELSE <<a[1], IF a[2] <= b[2] THEN a[2] ELSE b[2]>>

RECURSIVE ReduceFrom(_, _, _)
ReduceFrom(mins, k, acc) ==
    IF k >= p THEN acc ELSE ReduceFrom(mins, k + 1, MinLoc(acc, mins[k]))

\* line 309
Allreduce(mins) == ReduceFrom(mins, 1, mins[0])

(***************************************************************************)
(* Dijkstra: ownership and relaxation                                      *)
(***************************************************************************)
\* line 316
Owns(u, ln, my_rank) == u \div ln = my_rank

\* lines 316-321
MarkKnown(lknown, u, ln, my_rank) ==
    IF Owns(u, ln, my_rank) THEN [lknown EXCEPT ![u % ln] = 1] ELSE lknown

\* The test of line 325 left out: known vertices are relaxed too.
UnknownAlways(lknown, v) == lknown[v] \in {0, 1}

\* line 325
Unknown(lknown, v) == lknown[v] = 0

\* The index of mat[u][v] in the whole matrix, used on the local block.
RelaxIndexWhole(u, v, ln, nn) == u * nn + v

\* line 326: the index read in the local block
RelaxIndex(u, v, ln, nn) == u * ln + v

\* The comparison of line 327 turned around.
ImprovesInverted(new_dist, old_dist) == new_dist > old_dist

\* line 327
Improves(new_dist, old_dist) == new_dist < old_dist

\* The local vertices whose relaxation reads outside the n*loc_n block.
OutOfBlock(lknown, u, ln, nn) ==
    {v \in 0 .. (ln - 1) :
        Unknown(lknown, v) /\ RelaxIndex(u, v, ln, nn) \notin 0 .. (nn * ln - 1)}

\* line 326: rd[v] is what the read of mat[u*loc_n + v] returned
NewDist(lmat, min_dist, u, v, ln, nn, rd) ==
    min_dist + (IF v \in DOMAIN rd THEN rd[v] ELSE lmat[RelaxIndex(u, v, ln, nn)])

\* lines 324-332
RelaxDist(lmat, ldist, lknown, min_dist, u, ln, nn, rd) ==
    [v \in 0 .. (ln - 1) |->
        IF Unknown(lknown, v)
           /\ Improves(NewDist(lmat, min_dist, u, v, ln, nn, rd), ldist[v])
        THEN NewDist(lmat, min_dist, u, v, ln, nn, rd)
        ELSE ldist[v]]

RelaxPred(lmat, ldist, lpred, lknown, min_dist, u, ln, nn, rd) ==
    [v \in 0 .. (ln - 1) |->
        IF Unknown(lknown, v)
           /\ Improves(NewDist(lmat, min_dist, u, v, ln, nn, rd), ldist[v])
        THEN u
        ELSE lpred[v]]

(***************************************************************************)
(* Print_paths                                                             *)
(***************************************************************************)
\* lines 434-438.  path holds path[0..count-1]; path[] has room for nn
\* ints, and pred[] has nn entries: a read of pred[w] outside them returns
\* oob, or faults when fault is TRUE.
RECURSIVE Walk(_, _, _, _, _, _)
Walk(prd, nn, w, path, fault, oob) ==
    IF w = 0 THEN [ok |-> TRUE, path |-> path]
    ELSE IF Len(path) >= nn THEN [ok |-> FALSE, path |-> path]
    ELSE IF w \notin 0 .. (nn - 1)
         THEN IF fault THEN [ok |-> FALSE, path |-> Append(path, w)]
              ELSE Walk(prd, nn, oob, Append(path, w), fault, oob)
         ELSE Walk(prd, nn, prd[w], Append(path, w), fault, oob)

RECURSIVE Reverse(_)
Reverse(s) == IF s = <<>> THEN <<>> ELSE Append(Reverse(Tail(s)), Head(s))

\* lines 439-441: "0 " and then path[count-1] down to path[0]
PrintedPath(path) == <<0>> \o Reverse(path)

(***************************************************************************)
(* The state after MPI_Init and Read_n                                     *)
(***************************************************************************)
Init ==
    /\ n \in Sizes
    /\ mat \in Inputs(n)
    /\ p \in 1 .. MaxP
    /\ phase = "start"
    /\ crashed = FALSE
    /\ loc_mat = [k \in Ranks |-> Empty]
    /\ loc_dist = [k \in Ranks |-> Empty]
    /\ loc_pred = [k \in Ranks |-> Empty]
    /\ known = [k \in Ranks |-> Empty]
    /\ wpc = [k \in Ranks |-> "main"]
    /\ i = [k \in Ranks |-> 0]
    /\ my_min = [k \in Ranks |-> <<INFINITY, INFINITY>>]
    /\ arrived = {}
    /\ glbl_min = <<>>
    /\ dist = Empty
    /\ pred = Empty
    /\ paths = Empty
    /\ gmat = Empty

(***************************************************************************)
(* Read_matrix, lines 178-193: process 0 scatters the block columns.       *)
(***************************************************************************)
ReadMatrix ==
    /\ ~crashed
    /\ phase = "start"
    /\ phase' = "scattered"
    /\ loc_mat' = [k \in Ranks |-> Scatter(mat, k, n, LocN)]
    /\ UNCHANGED <<n, p, mat, crashed, loc_dist, loc_pred, known, wpc, i,
                   my_min, arrived, glbl_min, dist, pred, paths, gmat>>

(***************************************************************************)
(* The top of the loop, lines 293-309: process k has the arrays ldist,     *)
(* lpred, lknown and the counter ni.  If ni < n it finds its minimum and   *)
(* enters the Allreduce, which completes when the last process enters;     *)
(* otherwise it leaves the loop.                                           *)
(***************************************************************************)
LoopTop(k, ni, ldist, lpred, lknown) ==
    /\ loc_dist' = [loc_dist EXCEPT ![k] = ldist]
    /\ loc_pred' = [loc_pred EXCEPT ![k] = lpred]
    /\ known' = [known EXCEPT ![k] = lknown]
    /\ i' = [i EXCEPT ![k] = ni]
    /\ IF ni < n
       THEN LET mins == [my_min EXCEPT ![k] = MyMin(ldist, lknown, LocN, k)]
            IN  /\ my_min' = mins
                /\ wpc' = [wpc EXCEPT ![k] = "reduce"]
                /\ IF arrived \cup {k} = Ranks
                   THEN /\ glbl_min' = Append(glbl_min, Allreduce(mins))
                        /\ arrived' = {}
                   ELSE /\ arrived' = arrived \cup {k}
                        /\ UNCHANGED glbl_min
       ELSE /\ wpc' = [wpc EXCEPT ![k] = "done"]
            /\ UNCHANGED <<my_min, arrived, glbl_min>>

(***************************************************************************)
(* Dijkstra, lines 279-289, and the first pass through the top of the      *)
(* loop.                                                                   *)
(***************************************************************************)
InitDist(lmat, ln) == [v \in 0 .. (ln - 1) |-> lmat[0 * ln + v]]

InitPred(ln) == [v \in 0 .. (ln - 1) |-> 0]

\* The test of line 287 left out: every process marks its vertex 0.
InitKnownAnyRank(ln, my_rank) == [v \in 0 .. (ln - 1) |-> IF v = 0 THEN 1 ELSE 0]

\* lines 284, 287-289; with loc_n = 0 the store known[0] = 1 lands in a
\* zero-length allocation and is not seen again
InitKnown(ln, my_rank) ==
    [v \in 0 .. (ln - 1) |-> IF my_rank = 0 /\ v = 0 THEN 1 ELSE 0]

Start(k) ==
    /\ ~crashed
    /\ phase = "scattered"
    /\ wpc[k] = "main"
    /\ LoopTop(k, 1, InitDist(loc_mat[k], LocN), InitPred(LocN), InitKnown(LocN, k))
    /\ UNCHANGED <<n, p, mat, phase, crashed, loc_mat, dist, pred, paths, gmat>>

(***************************************************************************)
(* Dijkstra, lines 309-333: process k leaves the Allreduce of round i[k],  *)
(* marks the winner if it owns it, relaxes its unknown vertices, and goes  *)
(* back to the top of the loop.                                            *)
(*                                                                         *)
(* With loc_n = 0 line 316 divides by zero: the process is killed, or the  *)
(* division yields a value that is not its rank.  A relaxation that reads  *)
(* outside the block (u = INFINITY) is killed, or reads garbage.           *)
(***************************************************************************)
Fault ==
    /\ crashed' = TRUE
    /\ UNCHANGED <<n, p, mat, phase, loc_mat, loc_dist, loc_pred, known, wpc,
                   i, my_min, arrived, glbl_min, dist, pred, paths, gmat>>

Step(k) ==
    /\ ~crashed
    /\ phase = "scattered"
    /\ wpc[k] = "reduce"
    /\ Len(glbl_min) >= i[k]
    /\ LET min_dist == glbl_min[i[k]][1]
           u == glbl_min[i[k]][2]
       IN  IF LocN = 0
           THEN \/ Fault
                \/ /\ LoopTop(k, i[k] + 1, loc_dist[k], loc_pred[k], known[k])
                   /\ UNCHANGED <<n, p, mat, phase, crashed, loc_mat, dist,
                                  pred, paths, gmat>>
           ELSE LET lknown == MarkKnown(known[k], u, LocN, k)
                    oob == OutOfBlock(lknown, u, LocN, n)
                IN  \/ (oob # {} /\ Fault)
                    \/ \E rd \in [oob -> Garbage] :
                         /\ LoopTop(k, i[k] + 1,
                                    RelaxDist(loc_mat[k], loc_dist[k], lknown,
                                              min_dist, u, LocN, n, rd),
                                    RelaxPred(loc_mat[k], loc_dist[k], loc_pred[k],
                                              lknown, min_dist, u, LocN, n, rd),
                                    lknown)
                         /\ UNCHANGED <<n, p, mat, phase, crashed, loc_mat,
                                        dist, pred, paths, gmat>>

(***************************************************************************)
(* Print_dists and Print_paths on process 0.  MPI_Gather receives loc_n    *)
(* ints from each process, p*loc_n in all, into the n malloc'd ints; the   *)
(* ints beyond p*loc_n keep whatever malloc returned.  Entry 0 is never    *)
(* read (the loops start at v = 1 and the walk stops at w = 0).            *)
(***************************************************************************)
Beyond == {v \in 1 .. (n - 1) : v >= p * LocN}

Gather(loc, rest) ==
    [v \in 0 .. (n - 1) |->
        IF v \in DOMAIN rest THEN rest[v]
        ELSE IF v >= p * LocN THEN 0
        ELSE loc[v \div LocN][v % LocN]]

\* lines 379-403
PrintDists ==
    /\ ~crashed
    /\ phase = "scattered"
    /\ \A k \in Ranks : wpc[k] = "done"
    /\ \E rest \in [Beyond -> Uninit] : dist' = Gather(loc_dist, rest)
    /\ phase' = "dists_printed"
    /\ UNCHANGED <<n, p, mat, crashed, loc_mat, loc_dist, loc_pred, known,
                   wpc, i, my_min, arrived, glbl_min, pred, paths, gmat>>

\* lines 412-447
PrintPaths ==
    /\ ~crashed
    /\ phase = "dists_printed"
    /\ \E rest \in [Beyond -> Uninit] :
       \E fault \in BOOLEAN :
       \E oob \in 0 .. (n - 1) :
         LET prd == Gather(loc_pred, rest)
             walk == [v \in 1 .. (n - 1) |-> Walk(prd, n, v, <<>>, fault, oob)]
         IN  /\ pred' = prd
             /\ IF \A v \in 1 .. (n - 1) : walk[v].ok
                THEN /\ paths' = [v \in 1 .. (n - 1) |-> PrintedPath(walk[v].path)]
                     /\ phase' = "paths_printed"
                     /\ UNCHANGED crashed
                ELSE /\ crashed' = TRUE
                     /\ UNCHANGED <<paths, phase>>
    /\ UNCHANGED <<n, p, mat, loc_mat, loc_dist, loc_pred, known, wpc, i,
                   my_min, arrived, glbl_min, dist, gmat>>

Next ==
    \/ ReadMatrix
    \/ \E k \in Ranks : Start(k)
    \/ \E k \in Ranks : Step(k)
    \/ PrintDists
    \/ PrintPaths

Spec == Init /\ [][Next]_vars

(***************************************************************************)
(* The build with DEBUG defined, lines 94-97: after Read_matrix every      *)
(* process calls Print_matrix, which gathers the blocks on process 0 with  *)
(* the same blk_col_mpi_t, and then goes on to Dijkstra as above.          *)
(*                                                                         *)
(* MPI_Gather stores the idx-th int of process k's block at the idx-th     *)
(* position of the k-th element of type blk_col_mpi_t in mat, the          *)
(* processes in rank order.  gmat is defined on the ints it stored; the    *)
(* others keep what malloc returned.                                       *)
(***************************************************************************)
Stored(nn, ln) ==
    {BlkColIndex(k, idx, nn, ln) : k \in Ranks, idx \in 0 .. (nn * ln - 1)}

GatherMatrix(blocks, nn, ln) ==
    [j \in Stored(nn, ln) |->
        LET k == CHOOSE k1 \in Ranks :
                    /\ \E idx \in 0 .. (nn * ln - 1) : BlkColIndex(k1, idx, nn, ln) = j
                    /\ \A k2 \in Ranks :
                          (\E idx \in 0 .. (nn * ln - 1) : BlkColIndex(k2, idx, nn, ln) = j)
                              => k2 <= k1
            idx == CHOOSE idx1 \in 0 .. (nn * ln - 1) : BlkColIndex(k, idx1, nn, ln) = j
        IN  blocks[k][idx]]

\* lines 242-260
PrintMatrix ==
    /\ ~crashed
    /\ phase = "scattered"
    /\ gmat' = GatherMatrix(loc_mat, n, LocN)
    /\ phase' = "matrix_printed"
    /\ UNCHANGED <<n, p, mat, crashed, loc_mat, loc_dist, loc_pred, known,
                   wpc, i, my_min, arrived, glbl_min, dist, pred, paths>>

\* Matrices whose entries are all different, and the sample.
DebugInputs(nn) ==
    {[idx \in 0 .. (nn * nn - 1) |-> c * idx + d] : c \in 1 .. (MaxW + 1), d \in 0 .. MaxW}
        \cup (IF nn = SampleN THEN {SampleMat} ELSE {})

DebugInit ==
    /\ n \in Sizes
    /\ mat \in DebugInputs(n)
    /\ p \in 1 .. MaxP
    /\ phase = "start"
    /\ crashed = FALSE
    /\ loc_mat = [k \in Ranks |-> Empty]
    /\ loc_dist = [k \in Ranks |-> Empty]
    /\ loc_pred = [k \in Ranks |-> Empty]
    /\ known = [k \in Ranks |-> Empty]
    /\ wpc = [k \in Ranks |-> "main"]
    /\ i = [k \in Ranks |-> 0]
    /\ my_min = [k \in Ranks |-> <<INFINITY, INFINITY>>]
    /\ arrived = {}
    /\ glbl_min = <<>>
    /\ dist = Empty
    /\ pred = Empty
    /\ paths = Empty
    /\ gmat = Empty

DebugNext ==
    \/ ReadMatrix
    \/ PrintMatrix

DebugSpec == DebugInit /\ [][DebugNext]_vars

(***************************************************************************)
(* Vocabulary of the properties                                            *)
(***************************************************************************)
\* p evenly divides n (note 1 of the file header)
Valid == n % p = 0

\* The vertices some process holds; all of 0..n-1 when p divides n.
Held == 0 .. (p * LocN - 1)

Started == \A k \in Ranks : wpc[k] # "main"
Finished == \A k \in Ranks : wpc[k] = "done"

\* Every process is inside the Allreduce of round r, which has completed,
\* and none has gone on: the arrays are those at the start of round r.
RoundStart(r) ==
    /\ r >= 1
    /\ Len(glbl_min) = r
    /\ \A k \in Ranks : wpc[k] = "reduce" /\ i[k] = r

\* Between two rounds: after initialization, or after a round.
Boundary == RoundStart(Len(glbl_min)) \/ Finished

GDist(v) == loc_dist[v \div LocN][v % LocN]
GPred(v) == loc_pred[v \div LocN][v % LocN]
GKnown(v) == known[v \div LocN][v % LocN]

SetMin(S) == CHOOSE x \in S : \A y \in S : x <= y

\* Single-process Dijkstra from vertex 0 on the whole matrix: n-1 rounds,
\* each finalizing the unknown vertex of least distance, lowest id first.
RECURSIVE RefRounds(_, _, _, _, _, _)
RefRounds(m, nn, d, pr, kn, r) ==
    IF r >= nn THEN [d |-> d, pr |-> pr]
    ELSE LET U == (0 .. (nn - 1)) \ kn
             best == SetMin({d[v] : v \in U})
             u == SetMin({v \in U : d[v] = best})
             better(v) == v \in U \ {u} /\ d[u] + m[u * nn + v] < d[v]
         IN  RefRounds(m, nn,
                       [v \in 0 .. (nn - 1) |->
                           IF better(v) THEN d[u] + m[u * nn + v] ELSE d[v]],
                       [v \in 0 .. (nn - 1) |-> IF better(v) THEN u ELSE pr[v]],
                       kn \cup {u}, r + 1)

RefDijkstra(m, nn) ==
    RefRounds(m, nn, [v \in 0 .. (nn - 1) |-> IF v = 0 THEN 0 ELSE m[v]],
              [v \in 0 .. (nn - 1) |-> 0], {0}, 1)

\* Following the predecessors held by the processes, k times, from v.
RECURSIVE PredIter(_, _)
PredIter(v, k) ==
    IF k = 0 \/ v \notin Held THEN v ELSE PredIter(GPred(v), k - 1)

OnCycle(v) == \E k \in 1 .. (p * LocN) : PredIter(GPred(v), k - 1) = v

(***************************************************************************)
(* C1: for p dividing n, the distances gathered on process 0 equal, for    *)
(* every vertex v # 0, those of a single-process Dijkstra on the matrix.   *)
(***************************************************************************)
C1_DistsEqualSequential ==
    (Valid /\ phase \in {"dists_printed", "paths_printed"})
        => \A v \in 1 .. (n - 1) : dist[v] = RefDijkstra(mat, n).d[v]

(***************************************************************************)
(* C2: when p does not divide n the run stops before the first round: no   *)
(* process enters a round, no reduction is performed, and no distance or   *)
(* path is printed (with n = 1 there is none to print).                    *)
(***************************************************************************)
C2_NoRunOnBadPartition ==
    ~Valid =>
        /\ \A k \in Ranks : wpc[k] # "reduce"
        /\ arrived = {}
        /\ glbl_min = <<>>
        /\ (phase \in {"start", "scattered"} \/ n = 1)

(***************************************************************************)
(* C3: for p dividing n, the gathered vectors satisfy                      *)
(* dist[v] = dist[pred[v]] + mat[pred[v]][v] for every vertex v # 0.       *)
(***************************************************************************)
C3_PathCostConsistency ==
    (Valid /\ phase = "paths_printed")
        => \A v \in 1 .. (n - 1) :
              /\ pred[v] \in 0 .. (n - 1)
              /\ dist[v] = dist[pred[v]] + mat[pred[v] * n + v]

(***************************************************************************)
(* C4: for p dividing n, after the n-1 rounds every vertex is marked known *)
(* on the process that owns it.                                            *)
(***************************************************************************)
C4_AllKnownAfterLoop ==
    (Valid /\ Finished) => \A v \in 0 .. (n - 1) : GKnown(v) = 1

(***************************************************************************)
(* C5: for p dividing n, in a round at whose start two or more unknown     *)
(* vertices share the least distance, the winner of the reduction, which   *)
(* its owner marks known, is the one of them with the lowest id.           *)
(***************************************************************************)
C5_LowestIdWinsTie ==
    (Valid /\ RoundStart(Len(glbl_min))) =>
        LET U == {v \in 0 .. (n - 1) : GKnown(v) = 0}
            best == SetMin({GDist(v) : v \in U})
            tied == {v \in U : GDist(v) = best}
        IN  Cardinality(tied) >= 2 => glbl_min[Len(glbl_min)][2] = SetMin(tied)

(***************************************************************************)
(* C6 as stated: at every round boundary the predecessor relation, taken   *)
(* over all the vertices, has no cycle.                                    *)
(***************************************************************************)
C6_NoCycleAtAll == Boundary => \A v \in Held : ~OnCycle(v)

(***************************************************************************)
(* C6 amended: at every round boundary the only cycle of the predecessor   *)
(* relation is pred[0] = 0; no vertex other than 0 is on a cycle.          *)
(***************************************************************************)
C6_NoCycleButSource ==
    Boundary => /\ \A v \in Held \ {0} : ~OnCycle(v)
                /\ (LocN > 0 => GPred(0) = 0)

\* A boundary after a relaxation has made some vertex a predecessor.
C6_Witness ==
    /\ Valid
    /\ Boundary
    /\ \E v \in Held : GPred(v) # 0 /\ GPred(v) \in Held

(***************************************************************************)
(* C7: for p dividing n, the final distances and predecessors are those of *)
(* the single-process run, whatever p is.                                  *)
(***************************************************************************)
C7_SameResultForEveryP ==
    (Valid /\ phase = "paths_printed")
        => \A v \in 1 .. (n - 1) :
              /\ dist[v] = RefDijkstra(mat, n).d[v]
              /\ pred[v] = RefDijkstra(mat, n).pr[v]

(***************************************************************************)
(* C8: no step of any process increases a tentative distance.              *)
(***************************************************************************)
C8_DistNeverIncreases ==
    [][\A k \in Ranks :
          wpc[k] # "main" =>
              \A v \in 0 .. (LocN - 1) : loc_dist'[k][v] <= loc_dist[k][v]]_vars

\* Some tentative distance is below its initial value mat[0][v].
C8_Witness ==
    /\ \A r \in 1 .. Len(glbl_min) : glbl_min[r][2] \in 0 .. (n - 1)
    /\ \E k \in Ranks :
          /\ wpc[k] # "main"
          /\ \E v \in 0 .. (LocN - 1) : loc_dist[k][v] < loc_mat[k][v]

(***************************************************************************)
(* C9: for p dividing n, the walk from every vertex v # 0 back to 0 ends   *)
(* after at most n-1 vertices, and the printed sequence starts with 0,     *)
(* ends with v, and each vertex of it is preceded by its predecessor.      *)
(***************************************************************************)
C9_PathsWellFormed ==
    Valid =>
        /\ ~(crashed /\ phase = "dists_printed")
        /\ phase = "paths_printed" =>
              \A v \in 1 .. (n - 1) :
                  /\ Len(paths[v]) - 1 <= n - 1
                  /\ paths[v][1] = 0
                  /\ paths[v][Len(paths[v])] = v
                  /\ \A j \in 2 .. Len(paths[v]) :
                        /\ paths[v][j] \in 0 .. (n - 1)
                        /\ pred[paths[v][j]] = paths[v][j - 1]

(***************************************************************************)
(* C10: on the sample matrix with two processes the distances are 1, 2, 3  *)
(* and the paths are 0 1, 0 2 and 0 3.                                     *)
(***************************************************************************)
C10_SampleRun ==
    (mat = SampleMat /\ p = 2 /\ phase = "paths_printed") =>
        /\ \A v \in 1 .. 3 : dist[v] = v /\ pred[v] = 0
        /\ paths = [v \in 1 .. 3 |-> <<0, v>>]

C10_Witness == mat = SampleMat /\ p = 2 /\ phase = "paths_printed"

(***************************************************************************)
(* C11: for p dividing n, the winner of every reduction is a vertex id in  *)
(* 0..n-1, unknown at the start of its round, so that the relaxation reads *)
(* mat[u*loc_n + v] inside the block.                                      *)
(***************************************************************************)
C11_WinnerIsUnknownVertex ==
    Valid =>
        /\ \A r \in 1 .. Len(glbl_min) : glbl_min[r][2] \in 0 .. (n - 1)
        /\ RoundStart(Len(glbl_min)) => GKnown(glbl_min[Len(glbl_min)][2]) = 0

(***************************************************************************)
(* C12: the result of a round's reduction is the least of the p pairs      *)
(* contributed in that round, lowest index on equal values; it is the same *)
(* for every process, and no process goes on to the ownership test and the *)
(* relaxation of round r before every process has contributed to round r.  *)
(***************************************************************************)
C12_ReductionAgreed ==
    /\ [](RoundStart(Len(glbl_min)) =>
            LET best == SetMin({my_min[k][1] : k \in Ranks})
                at == {my_min[k][2] : k \in {k1 \in Ranks : my_min[k1][1] = best}}
            IN  glbl_min[Len(glbl_min)] = <<best, SetMin(at)>>)
    /\ [][/\ \A r \in 1 .. Len(glbl_min) : glbl_min'[r] = glbl_min[r]
          /\ \A k \in Ranks :
                (wpc[k] = "reduce" /\ i'[k] # i[k]) =>
                    \A j \in Ranks : wpc[j] # "main" /\ i[j] >= i[k]]_vars

\* A reduction after the first, over contributions that differ.
C12_Witness ==
    /\ p >= 2
    /\ Len(glbl_min) >= 2
    /\ RoundStart(Len(glbl_min))
    /\ \E j, k \in Ranks : my_min[j][1] < my_min[k][1]

(***************************************************************************)
(* C13: for p dividing n, every process takes part in exactly n-1          *)
(* reductions, and every process finishes the loop: the job is never       *)
(* stopped with a process still inside it.                                 *)
(***************************************************************************)
C13_EveryWorkerFinishes ==
    Valid =>
        /\ \A k \in Ranks :
              /\ wpc[k] = "done" => i[k] = n
              /\ wpc[k] = "reduce" => i[k] \in 1 .. (n - 1)
        /\ ~(crashed /\ ~Finished)

(***************************************************************************)
(* C14: for p dividing n, the pair a process contributes is the least      *)
(* distance among its unknown local vertices with the global id of such a  *)
(* vertex, and (INFINITY, INFINITY) when it has no unknown vertex.         *)
(***************************************************************************)
C14_ContributionIsLocalMin ==
    Valid =>
        \A k \in Ranks :
            wpc[k] = "reduce" =>
                LET U == {v \in 0 .. (LocN - 1) : known[k][v] = 0}
                    best == SetMin({loc_dist[k][v] : v \in U})
                IN  IF U = {}
                    THEN my_min[k] = <<INFINITY, INFINITY>>
                    ELSE /\ my_min[k][1] = best
                         /\ \E v \in U : /\ loc_dist[k][v] = best
                                         /\ my_min[k][2] = v + k * LocN

(***************************************************************************)
(* C15: once a vertex is marked known, its flag, its distance and its      *)
(* predecessor never change; this includes vertex 0 from initialization.   *)
(***************************************************************************)
C15_KnownIsFinal ==
    [][\A k \in Ranks :
          wpc[k] # "main" =>
              \A v \in 0 .. (LocN - 1) :
                  known[k][v] = 1 =>
                      /\ known'[k][v] = 1
                      /\ loc_dist'[k][v] = loc_dist[k][v]
                      /\ loc_pred'[k][v] = loc_pred[k][v]]_vars

\* The owner of a vertex finalized in some round has been through a later
\* round.
C15_Witness ==
    /\ Valid
    /\ \E r \in 1 .. Len(glbl_min) :
          LET u == glbl_min[r][2]
          IN  /\ u \in 1 .. (n - 1)
              /\ GKnown(u) = 1
              /\ i[u \div LocN] >= r + 2

(***************************************************************************)
(* C16: for p dividing n, each round sets exactly one known flag, that of  *)
(* its winner u, on the process u / loc_n at offset u mod loc_n: between   *)
(* rounds the known vertices are 0 and the winners so far, one per round.  *)
(***************************************************************************)
C16_OneOwnerMarksWinner ==
    (Valid /\ Boundary) =>
        LET rounds == IF Finished THEN n - 1 ELSE Len(glbl_min) - 1
            marked == {v \in 0 .. (n - 1) : GKnown(v) = 1}
        IN  /\ marked = {0} \cup {glbl_min[r][2] : r \in 1 .. rounds}
            /\ Cardinality(marked) = rounds + 1

\* The least cost of a path from vertex 0 to each vertex.
RECURSIVE Cheapest(_, _, _, _)
Cheapest(m, nn, d, r) ==
    IF r = 0 THEN d
    ELSE Cheapest(m, nn,
                  [v \in 0 .. (nn - 1) |->
                      IF v = 0 THEN 0
                      ELSE SetMin({d[v]} \cup
                                  {d[u] + m[u * nn + v] : u \in (0 .. (nn - 1)) \ {v}})],
                  r - 1)

Shortest(m, nn) ==
    Cheapest(m, nn, [v \in 0 .. (nn - 1) |-> IF v = 0 THEN 0 ELSE m[v]], nn)

(***************************************************************************)
(* C17: for p dividing n, between rounds every known vertex v # 0 has the  *)
(* least cost of a path from 0 as its distance, and the minima selected in *)
(* successive rounds never decrease.                                       *)
(***************************************************************************)
C17_KnownAreShortest ==
    (Valid /\ Boundary) =>
        /\ \A v \in 1 .. (n - 1) : GKnown(v) = 1 => GDist(v) = Shortest(mat, n)[v]
        /\ \A r \in 1 .. (Len(glbl_min) - 1) : glbl_min[r][1] <= glbl_min[r + 1][1]

(***************************************************************************)
(* C18: for p dividing n, gathering the blocks after distributing the      *)
(* matrix gives the matrix back on process 0.                              *)
(***************************************************************************)
C18_GatherInvertsScatter ==
    (Valid /\ phase = "matrix_printed") => gmat = mat

C18_Witness == Valid /\ p >= 2 /\ LocN >= 2 /\ phase = "matrix_printed"

(***************************************************************************)
(* C19: for p dividing n, after the distribution process k holds columns   *)
(* k*loc_n .. (k+1)*loc_n - 1 of every row, and every entry of the matrix  *)
(* is held by exactly one process.                                         *)
(***************************************************************************)
C19_BlockColumns ==
    (Valid /\ phase # "start") =>
        /\ \A k \in Ranks : \A r \in 0 .. (n - 1) : \A c \in 0 .. (LocN - 1) :
              loc_mat[k][r * LocN + c] = mat[r * n + k * LocN + c]
        /\ \A r \in 0 .. (n - 1) : \A c \in 0 .. (n - 1) :
              Cardinality({kc \in Ranks \X (0 .. (LocN - 1)) :
                              /\ kc[1] * LocN + kc[2] = c
                              /\ loc_mat[kc[1]][r * LocN + kc[2]] = mat[r * n + c]}) = 1

C19_Witness == Valid /\ p >= 2 /\ LocN >= 2 /\ phase = "scattered"

(***************************************************************************)
(* C20: after the initialization process k has dist[v] = mat[0][k*loc_n+v] *)
(* and pred[v] = 0 for every local v, and the only vertex marked known is  *)
(* vertex 0, on process 0.                                                 *)
(***************************************************************************)
C20_Initialization ==
    \A k \in Ranks :
        (wpc[k] # "main" /\ i[k] = 1) =>
            \A v \in 0 .. (LocN - 1) :
                /\ loc_dist[k][v] = mat[0 * n + k * LocN + v]
                /\ loc_pred[k][v] = 0
                /\ known[k][v] = (IF k = 0 /\ v = 0 THEN 1 ELSE 0)

\* Several processes, all initialized and none past its first reduction.
C20_Witness ==
    /\ Valid
    /\ p >= 2
    /\ \A k \in Ranks : wpc[k] = "reduce" /\ i[k] = 1

====
